---------------------------- MODULE Spec2Model ----------------------------
(***************************************************************************)
(* A model of the BillSense finance agent (src/main.ts): the statement     *)
(* parsers (parseCSV, parseExcel, parsePDF), the keyword categorizer       *)
(* (categorizeTransaction), the analytics engine (generateReport) and the  *)
(* session store with its two handlers (handleUpload, handleChat).         *)
(*                                                                         *)
(* Representation.                                                         *)
(*  - A JavaScript string is the sequence of its characters, each a        *)
(*    one-character TLA+ string, so that split, trim, toLowerCase,         *)
(*    includes, substring, the amount regular expression, parseFloat and   *)
(*    the default sort order are computed character by character.          *)
(*  - A JavaScript number is a double, held as the pair (n, e) of its      *)
(*    decimal value n in hundredths (Scale units per 1.0: 4.5 is 450) and  *)
(*    its rounding error e in units of 2^-60 / 25; a transaction's amount  *)
(*    is the n of the double nearest to that decimal, which is what        *)
(*    parseFloat returns for a text of at most two fraction digits.  Sums  *)
(*    are rounded to nearest, ties to even, as + rounds them, and the      *)
(*    results of spent * 1.1, totalSpent * 0.3, the two quotients and      *)
(*    Math.round are those of the rounded doubles, so 0.1 + 0.2 is         *)
(*    0.30000000000000004 and is above 0.3.                                *)
(*  - A JavaScript value is a record [t, s, n, e]: t is its type tag       *)
(*    ("str", "num", "nan", "undef", "fn"), s its characters (strings;     *)
(*    for "fn" the name of the built-in function), n and e its number.     *)
(*  - A JavaScript plain object {} is the sequence of its own properties   *)
(*    <<key, value>> in creation order; reads fall back to the properties  *)
(*    every object inherits from Object.prototype.                         *)
(***************************************************************************)
EXTENDS Integers, Sequences, FiniteSets

VARIABLES
    pc,        \* which step of the specification at hand has been taken
    file,      \* the uploaded file: its extension and its content
    today,     \* new Date().toISOString().split('T')[0] at parse time
    parsed,    \* what the parser returned, or that it threw
    txns,      \* the transaction list handed to generateReport
    report,    \* what generateReport returned, or that it threw
    catIn,     \* the (description, merchant) given to categorizeTransaction
    catOut,    \* the category it returned
    sessions,  \* the sessions Map: session id -> SessionData
    response,  \* the response sent last to an upload, or to a chat request
               \* that did not reach the agent
    chats      \* the chat requests that reached the agent, in order of arrival

vars == <<pc, file, today, parsed, txns, report, catIn, catOut,
         sessions, response, chats>>

----------------------------------------------------------------------------
(* Characters and strings *)

\* The characters of the model, in ascending UTF-16 code unit order.
Chars ==
    <<"\t", "\n", "\r", " ", "$", "(", ")", ",", "-", ".", "/",
      "0", "1", "2", "3", "4", "5", "6", "7", "8", "9",
      "A", "B", "C", "D", "E", "F", "G", "H", "I", "J", "K", "L", "M",
      "N", "O", "P", "Q", "R", "S", "T", "U", "V", "W", "X", "Y", "Z",
      "[", "]", "_",
      "a", "b", "c", "d", "e", "f", "g", "h", "i", "j", "k", "l", "m",
      "n", "o", "p", "q", "r", "s", "t", "u", "v", "w", "x", "y", "z",
      "{", "}">>

Code(c) == CHOOSE i \in DOMAIN Chars : Chars[i] = c

Upper == <<"A", "B", "C", "D", "E", "F", "G", "H", "I", "J", "K", "L", "M",
           "N", "O", "P", "Q", "R", "S", "T", "U", "V", "W", "X", "Y", "Z">>
Lower == <<"a", "b", "c", "d", "e", "f", "g", "h", "i", "j", "k", "l", "m",
           "n", "o", "p", "q", "r", "s", "t", "u", "v", "w", "x", "y", "z">>

Digits == <<"0", "1", "2", "3", "4", "5", "6", "7", "8", "9">>

IsDigit(c) == \E i \in DOMAIN Digits : Digits[i] = c

DigitValue(c) == (CHOOSE i \in DOMAIN Digits : Digits[i] = c) - 1

\* String.prototype.toLowerCase
toLowerCase(s) ==
    [i \in DOMAIN s |->
        IF \E k \in DOMAIN Upper : Upper[k] = s[i]
        THEN Lower[CHOOSE k \in DOMAIN Upper : Upper[k] = s[i]]
        ELSE s[i]]

\* The white space String.prototype.trim removes.
IsWhite(c) == c \in {" ", "\t", "\n", "\r"}

RECURSIVE trimStart(_)
trimStart(s) ==
    IF s # <<>> /\ IsWhite(Head(s)) THEN trimStart(Tail(s)) ELSE s

RECURSIVE trimEnd(_)
trimEnd(s) ==
    IF s # <<>> /\ IsWhite(s[Len(s)])
    THEN trimEnd(SubSeq(s, 1, Len(s) - 1))
    ELSE s

\* String.prototype.trim
trim(s) == trimEnd(trimStart(s))

\* String.prototype.split with a one-character separator: "" splits to [""].
RECURSIVE split(_, _)
split(s, sep) ==
    IF \A i \in DOMAIN s : s[i] # sep
    THEN <<s>>
    ELSE LET i == CHOOSE j \in DOMAIN s :
                      s[j] = sep /\ \A k \in 1..(j - 1) : s[k] # sep
         IN  <<SubSeq(s, 1, i - 1)>> \o split(SubSeq(s, i + 1, Len(s)), sep)

\* String.prototype.includes
includes(s, sub) ==
    \E i \in 0..(Len(s) - Len(sub)) : SubSeq(s, i + 1, i + Len(sub)) = sub

\* String.prototype.substring(0, n)
substring(s, n) == SubSeq(s, 1, IF Len(s) < n THEN Len(s) ELSE n)

\* a < b in the order of Array.prototype.sort without a comparator
\* (and of the < operator on strings): by UTF-16 code units.
RECURSIVE StrLess(_, _)
StrLess(a, b) ==
    IF b = <<>> THEN FALSE
    ELSE IF a = <<>> THEN TRUE
    ELSE IF Head(a) # Head(b) THEN Code(Head(a)) < Code(Head(b))
    ELSE StrLess(Tail(a), Tail(b))

\* Array.prototype.sort() of a list of strings (insertion into a sorted list).
RECURSIVE sortStrings(_)
sortStrings(xs) ==
    IF xs = <<>> THEN <<>>
    ELSE LET rest == sortStrings(SubSeq(xs, 1, Len(xs) - 1))
             x    == xs[Len(xs)]
             k    == Cardinality({i \in DOMAIN rest : ~StrLess(x, rest[i])})
         IN  SubSeq(rest, 1, k) \o <<x>> \o SubSeq(rest, k + 1, Len(rest))

----------------------------------------------------------------------------
(* Numbers *)

\* Numbers are held in hundredths.
Scale == 10 * 10

Abs(n) == IF n < 0 THEN -n ELSE n

\* The value of a string of digits.
RECURSIVE IntOf(_)
IntOf(ds) ==
    IF ds = <<>> THEN 0
    ELSE 10 * IntOf(SubSeq(ds, 1, Len(ds) - 1)) + DigitValue(ds[Len(ds)])

\* The longest prefix of s made of digits.
RECURSIVE DigitPrefix(_)
DigitPrefix(s) ==
    IF s # <<>> /\ IsDigit(Head(s))
    THEN <<Head(s)>> \o DigitPrefix(Tail(s))
    ELSE <<>>

\* The digits of a natural number.
RECURSIVE DigitsOf(_)
DigitsOf(n) ==
    IF n < 10 THEN <<Digits[n + 1]>>
    ELSE DigitsOf(n \div 10) \o <<Digits[(n % 10) + 1]>>

----------------------------------------------------------------------------
(* Binary floating point *)

\* A JavaScript number is an IEEE 754 double.  The doubles of the program
\* are amounts in hundredths and what + makes of them, so a double x is held
\* as the pair (n, e) of its decimal value n in hundredths and its rounding
\* error e, in units of 2^-60 / 25:
\*     x = n / 100 + e / (25 * 2^60),   that is   25 * 2^60 * x = n * 2^58 + e.
\* Every double from 2^-8 to 2^17 has an integer e, and e is 0 exactly when
\* x is the decimal n / 100.  The double nearest to 0.10 is (10, 40): it is
\* 0.1000000000000000055511151231257827.
RECURSIVE pow2(_)
pow2(k) == IF k = 0 THEN 1 ELSE 2 * pow2(k - 1)

\* 2^k modulo 25.
RECURSIVE pow2mod25(_)
pow2mod25(k) == IF k = 0 THEN 1 ELSE (2 * pow2mod25(k - 1)) % 25

\* The j with 2^j <= n / 100 < 2^(j + 1), for n >= 1.
RECURSIVE log2floor(_)
log2floor(n) ==
    IF n >= 2 * Scale THEN log2floor(n \div 2) + 1
    ELSE IF n < Scale THEN log2floor(2 * n) - 1
    ELSE 0

\* The binary exponent of a value next to n / 100: that of n / 100, one less
\* when n / 100 is a power of two and the value is below it.
exponentOf(n, below) ==
    IF below /\ IF log2floor(n) >= 0 THEN n = Scale * pow2(log2floor(n))
                ELSE n * pow2(-log2floor(n)) = Scale
    THEN log2floor(n) - 1
    ELSE log2floor(n)

\* What the value n / 100 + f / u units is above the multiple of 2^s * 2^-60
\* below it, in u-ths of a unit: (u * n * 2^58 + f) modulo u * 25 * 2^s,
\* where n * 2^58 modulo 25 * 2^s is 2^s * (n * 2^(58 - s) modulo 25).
remainderAt(n, f, u, s) ==
    (u * pow2(s) * (((n % 25) * pow2mod25(58 - s)) % 25) + f)
        % (u * 25 * pow2(s))

\* Round to nearest, ties to even, among the multiples of 2^s * 2^-60: the
\* error of the double nearest to the value n / 100 + f / u units, where t
\* is the sign of what the value has beyond f / u, too small to matter
\* except to break a tie.
roundAt(n, f, u, t, s) ==
    (f - remainderAt(n, f, u, s)) \div u
    + IF \/ 2 * remainderAt(n, f, u, s) > u * 25 * pow2(s)
         \/ /\ 2 * remainderAt(n, f, u, s) = u * 25 * pow2(s)
            /\ \/ t > 0
               \/ t = 0 /\ remainderAt(n, f, u, s + 1) # remainderAt(n, f, u, s)
      THEN 25 * pow2(s)
      ELSE 0

\* The error of the double nearest to the value n / 100 + f / u units.  The
\* doubles of exponent ex are the multiples of 2^(ex - 52), which is
\* 25 * 2^(ex + 8) units of error.
roundToDouble(n, f, u, t) ==
    IF n = 0 THEN 0
    ELSE IF n < 0
    THEN -roundAt(-n, -f, u, -t, exponentOf(-n, f > 0 \/ (f = 0 /\ t > 0)) + 8)
    ELSE roundAt(n, f, u, t, exponentOf(n, f < 0 \/ (f = 0 /\ t < 0)) + 8)

----------------------------------------------------------------------------
(* JavaScript values *)

Str(s) == [t |-> "str",   s |-> s,    n |-> 0, e |-> 0]
\* The double of decimal value n hundredths and rounding error e.
Double(n, e) == [t |-> "num", s |-> <<>>, n |-> n, e |-> e]
\* The number a decimal literal of n hundredths denotes: the nearest double.
Num(n) == Double(n, roundToDouble(n, 0, 1, 0))
NaN    == [t |-> "nan",   s |-> <<>>, n |-> 0, e |-> 0]
Undef  == [t |-> "undef", s |-> <<>>, n |-> 0, e |-> 0]
\* A built-in function object, by its name.
Fn(nm) == [t |-> "fn",    s |-> nm,   n |-> 0, e |-> 0]

\* The value of reading the inherited property __proto__: Object.prototype.
ObjectPrototype == [t |-> "obj", s |-> <<>>, n |-> 0, e |-> 0]

\* ToBoolean
truthy(v) ==
    CASE v.t = "str"   -> v.s # <<>>
      [] v.t = "num"   -> v.n # 0
      [] v.t = "nan"   -> FALSE
      [] v.t = "undef" -> FALSE
      [] v.t = "fn"    -> TRUE
      [] v.t = "obj"   -> TRUE

\* a || b
or(a, b) == IF truthy(a) THEN a ELSE b

\* Number.prototype.toString of the double nearest to n hundredths, its
\* shortest decimal: 450 is "4.5", -450 is "-4.5", 4000 is "40", 5 is "0.05".
NumToString(n) ==
    LET a    == Abs(n)
        ip   == DigitsOf(a \div Scale)
        f    == a % Scale
        frac == IF f = 0 THEN <<>>
                ELSE IF f % 10 = 0 THEN <<".", Digits[(f \div 10) + 1]>>
                ELSE <<".", Digits[(f \div 10) + 1], Digits[(f % 10) + 1]>>
    IN  (IF n < 0 THEN <<"-">> ELSE <<>>) \o ip \o frac

\* Whole numbers too large for an integer are sequences of limbs 0..9999,
\* the most significant first (base 10^4).
RECURSIVE limbsOfNat(_)
limbsOfNat(k) ==
    IF k < 10000 THEN <<k>> ELSE limbsOfNat(k \div 10000) \o <<k % 10000>>

zeros(k) == [i \in 1..k |-> 0]

\* ls as seventeen limbs: a double of the program in units of 10^-60.
wide(ls) == zeros(17 - Len(ls)) \o ls

\* ls * k + carry
RECURSIVE timesLimbs(_, _, _)
timesLimbs(ls, k, carry) ==
    IF ls = <<>> THEN (IF carry = 0 THEN <<>> ELSE limbsOfNat(carry))
    ELSE timesLimbs(SubSeq(ls, 1, Len(ls) - 1), k,
                    (ls[Len(ls)] * k + carry) \div 10000)
         \o <<(ls[Len(ls)] * k + carry) % 10000>>

\* ls * 5^j, six factors (5^6 = 15625) at a time.
RECURSIVE timesPow5(_, _)
timesPow5(ls, j) ==
    IF j = 0 THEN ls
    ELSE IF j >= 6 THEN timesPow5(timesLimbs(ls, 15625, 0), j - 6)
    ELSE timesPow5(timesLimbs(ls, 5, 0), j - 1)

\* a + b + carry, for a and b of one length and a sum of that length.
RECURSIVE addLimbs(_, _, _)
addLimbs(a, b, carry) ==
    IF a = <<>> THEN <<>>
    ELSE addLimbs(SubSeq(a, 1, Len(a) - 1), SubSeq(b, 1, Len(b) - 1),
                  (a[Len(a)] + b[Len(b)] + carry) \div 10000)
         \o <<(a[Len(a)] + b[Len(b)] + carry) % 10000>>

\* a - b - borrow, for a and b of one length and a >= b + borrow.
RECURSIVE subLimbs(_, _, _)
subLimbs(a, b, borrow) ==
    IF a = <<>> THEN <<>>
    ELSE subLimbs(SubSeq(a, 1, Len(a) - 1), SubSeq(b, 1, Len(b) - 1),
                  IF a[Len(a)] - b[Len(b)] - borrow < 0 THEN 1 ELSE 0)
         \o <<(a[Len(a)] - b[Len(b)] - borrow + 10000) % 10000>>

\* The decimal digits (0..9) of limbs, four to a limb.
digitsOfLimbs(ls) ==
    [i \in 1..(4 * Len(ls)) |->
        (ls[(i + 3) \div 4] \div (CASE i % 4 = 1 -> 1000 [] i % 4 = 2 -> 100
                                    [] i % 4 = 3 -> 10   [] i % 4 = 0 -> 1)) % 10]

\* The value n / 100 + k units of error, exactly, as the digits of a whole
\* number of 10^-60: a hundredth is 100 * (10^4)^14 of them and a unit of
\* error, 2^-60 / 25, is 5^58 of them.
exactDigits(n, k) ==
    digitsOfLimbs(
        IF k >= 0
        THEN addLimbs(wide(limbsOfNat(100 * n) \o zeros(14)),
                      wide(timesPow5(limbsOfNat(k), 58)), 0)
        ELSE subLimbs(wide(limbsOfNat(100 * n) \o zeros(14)),
                      wide(timesPow5(limbsOfNat(-k), 58)), 0))

\* a < b, for digits a and b of one length.
lessDigits(a, b) ==
    \E i \in DOMAIN a : a[i] < b[i] /\ \A j \in 1..(i - 1) : a[j] = b[j]

\* ds + 1, for digits that are not all 9: the last digit that is not 9 is
\* raised and the 9s after it are 0.
increment(ds) ==
    [i \in DOMAIN ds |->
        IF \A j \in i..Len(ds) : ds[j] = 9 THEN 0
        ELSE IF \A j \in (i + 1)..Len(ds) : ds[j] = 9 THEN ds[i] + 1
        ELSE ds[i]]

\* ds - 1, for digits that are not all 0.
decrement(ds) ==
    [i \in DOMAIN ds |->
        IF \A j \in i..Len(ds) : ds[j] = 0 THEN 9
        ELSE IF \A j \in (i + 1)..Len(ds) : ds[j] = 0 THEN ds[i] - 1
        ELSE ds[i]]

\* ds cut to q fraction digits: rounded down, and up.
floorAt(ds, q) == SubSeq(ds, 1, Len(ds) - (60 - q))

ceilAt(ds, q) ==
    IF \A i \in (Len(ds) - (60 - q) + 1)..Len(ds) : ds[i] = 0
    THEN floorAt(ds, q)
    ELSE increment(floorAt(ds, q))

\* ds rounded to q fraction digits.
nearestAt(ds, q) ==
    IF q < 60 /\ ds[Len(ds) - (60 - q) + 1] >= 5
    THEN increment(floorAt(ds, q))
    ELSE floorAt(ds, q)

\* The least and the greatest decimal of q fraction digits that reads back
\* as the double: those between the midpoints lo and hi to the doubles next
\* to it, the midpoints included when the last bit of the double is even.
leastAt(lo, even, q) ==
    IF even THEN ceilAt(lo, q) ELSE increment(floorAt(lo, q))

greatestAt(hi, even, q) ==
    IF even THEN floorAt(hi, q) ELSE decrement(ceilAt(hi, q))

\* The decimal with the fewest fraction digits, q or more, that reads back
\* as the double x, and of those the nearest to x.
RECURSIVE shortestFrom(_, _, _, _, _)
shortestFrom(lo, x, hi, even, q) ==
    IF lessDigits(greatestAt(hi, even, q), leastAt(lo, even, q))
    THEN shortestFrom(lo, x, hi, even, q + 1)
    ELSE [digits |-> IF lessDigits(nearestAt(x, q), leastAt(lo, even, q))
                     THEN leastAt(lo, even, q)
                     ELSE IF lessDigits(greatestAt(hi, even, q), nearestAt(x, q))
                     THEN greatestAt(hi, even, q)
                     ELSE nearestAt(x, q),
          q      |-> q]

\* The digits of a decimal with q fraction digits, with its dot.
RECURSIVE stripZeros(_)
stripZeros(ds) ==
    IF Len(ds) > 1 /\ ds[1] = 0 THEN stripZeros(Tail(ds)) ELSE ds

decimalText(d) ==
    [i \in 1..Len(stripZeros(SubSeq(d.digits, 1, Len(d.digits) - d.q))) |->
        Digits[stripZeros(SubSeq(d.digits, 1, Len(d.digits) - d.q))[i] + 1]]
    \o <<".">>
    \o [i \in 1..d.q |-> Digits[d.digits[Len(d.digits) - d.q + i] + 1]]

\* Number.prototype.toString of a double (n, e), not negative, that is not
\* the one nearest to n / 100: the shortest decimal that reads back as it.
\* Half the spacing of the doubles at exponent ex is 25 * 2^(ex + 7) units.
shortestDecimal(n, e, s) ==
    decimalText(shortestFrom(exactDigits(n, e - 25 * pow2(s - 1)),
                             exactDigits(n, e),
                             exactDigits(n, e + 25 * pow2(s - 1)),
                             remainderAt(n, e, 1, s + 1) = 0,
                             3))

\* Number.prototype.toString
numberToString(v) ==
    IF v = Num(v.n) THEN NumToString(v.n)
    ELSE IF v.n < 0
    THEN <<"-">> \o shortestDecimal(-v.n, -v.e, exponentOf(-v.n, v.e > 0) + 8)
    ELSE shortestDecimal(v.n, v.e, exponentOf(v.n, v.e < 0) + 8)

\* ToString: String(v), and the conversion that template literals, + and
\* property keys apply.
toStr(v) ==
    CASE v.t = "str"   -> v.s
      [] v.t = "num"   -> numberToString(v)
      [] v.t = "nan"   -> <<"N","a","N">>
      [] v.t = "undef" -> <<"u","n","d","e","f","i","n","e","d">>
      [] v.t = "fn"    -> <<"f","u","n","c","t","i","o","n"," ">> \o v.s \o <<"(",")"," ","{"," ","[","n","a","t","i","v","e"," ","c","o","d","e","]"," ","}">>
      [] v.t = "obj"   -> <<"[","o","b","j","e","c","t"," ","O","b","j","e","c","t","]">>

\* The sum of two doubles that are not negative: the exact sum, rounded.
addDoubles(a, b) ==
    Double(a.n + b.n, roundToDouble(a.n + b.n, a.e + b.e, 1, 0))

\* a < b for two doubles: their decimal values are a hundredth apart when
\* they differ, far more than the errors.
lessThan(a, b) == a.n < b.n \/ (a.n = b.n /\ a.e < b.e)

\* a + b: the sum of two numbers, a concatenation as soon as one operand is
\* not a number (a string, or an object, whose default value is a string).
plus(a, b) ==
    IF a.t \in {"num", "nan"} /\ b.t \in {"num", "nan"}
    THEN IF a.t = "nan" \/ b.t = "nan" THEN NaN ELSE addDoubles(a, b)
    ELSE Str(toStr(a) \o toStr(b))

\* The number a string converts to, given the digits ip before its dot and
\* the text rest after them: the whole of rest must be a dot and digits.
decimalOf(neg, ip, rest) ==
    IF rest = <<>>
    THEN IF ip = <<>> THEN NaN
         ELSE Num((IF neg THEN -1 ELSE 1) * IntOf(ip) * Scale)
    ELSE IF Head(rest) # "." \/ DigitPrefix(Tail(rest)) # Tail(rest)
            \/ (ip = <<>> /\ Tail(rest) = <<>>)
    THEN NaN
    ELSE Num((IF neg THEN -1 ELSE 1)
             * (IntOf(ip) * Scale
                + IntOf(SubSeq(Tail(rest) \o <<"0", "0">>, 1, 2))))

stringToNumber(s) ==
    IF s = <<>> THEN Num(0)
    ELSE IF Head(s) = "-"
    THEN decimalOf(TRUE, DigitPrefix(Tail(s)),
                   SubSeq(Tail(s), Len(DigitPrefix(Tail(s))) + 1, Len(Tail(s))))
    ELSE decimalOf(FALSE, DigitPrefix(s),
                   SubSeq(s, Len(DigitPrefix(s)) + 1, Len(s)))

\* ToNumber of a value that is divided or rounded: a string converts when
\* the whole of it, trimmed, is a decimal literal ("" is 0), else to NaN.
toNumber(v) ==
    IF v.t \in {"num", "nan"} THEN v
    ELSE IF v.t = "str" THEN stringToNumber(trim(v.s))
    ELSE NaN

----------------------------------------------------------------------------
(* Amounts *)

\* s.replace(/[^0-9.-]/g, ''): every character other than a digit, a dot
\* and a minus is removed.
stripAmount(s) == SelectSeq(s, LAMBDA c : IsDigit(c) \/ c = "." \/ c = "-")

\* The value, in hundredths, of the fraction digits fs (at most two of them
\* are significant at this scale).
FracOf(fs) ==
    IF fs = <<>> THEN 0
    ELSE IF Len(fs) = 1 THEN 10 * DigitValue(fs[1])
    ELSE 10 * DigitValue(fs[1]) + DigitValue(fs[2])

\* parseFloat on a text of digits, dots and minus signs: an optional minus,
\* then the longest prefix that is a decimal literal (digits, optionally a
\* dot and more digits, or a dot and digits); whatever follows is ignored;
\* NaN when there is no such prefix.
parseFloat(s) ==
    LET neg  == s # <<>> /\ Head(s) = "-"
        body == IF neg THEN Tail(s) ELSE s
        ip   == DigitPrefix(body)
        rest == SubSeq(body, Len(ip) + 1, Len(body))
        fp   == IF rest # <<>> /\ Head(rest) = "."
                THEN DigitPrefix(Tail(rest))
                ELSE <<>>
        mag  == IntOf(ip) * Scale + FracOf(fp)
    IN  IF ip = <<>> /\ fp = <<>> THEN NaN
        ELSE Num(IF neg THEN -mag ELSE mag)

\* Math.abs
MathAbs(v) == IF v.t = "num" THEN Num(Abs(v.n)) ELSE NaN

\* amountOf with the sign kept (Math.abs left out).
amountOfSigned(text) ==
    LET amount == parseFloat(text)
    IN  IF amount.t = "nan" THEN 0 ELSE amount.n

\* isNaN(amount) ? 0 : amount, of amount = Math.abs(parseFloat(text))
amountOf(text) ==
    LET amount == MathAbs(parseFloat(text))
    IN  IF amount.t = "nan" THEN 0 ELSE amount.n

----------------------------------------------------------------------------
(* The categorizer *)

CATEGORY_RULES ==
  <<
    [category |-> <<"D","i","n","i","n","g">>,
     keywords |-> <<<<"r","e","s","t","a","u","r","a","n","t">>,
                   <<"c","a","f","e">>,
                   <<"c","o","f","f","e","e">>,
                   <<"s","t","a","r","b","u","c","k","s">>,
                   <<"d","i","n","n","e","r">>,
                   <<"l","u","n","c","h">>,
                   <<"f","o","o","d">>,
                   <<"g","r","i","l","l">>,
                   <<"b","i","s","t","r","o">>,
                   <<"s","a","k","u","r","a">>>>],
    [category |-> <<"G","r","o","c","e","r","i","e","s">>,
     keywords |-> <<<<"g","r","o","c","e","r","y">>,
                   <<"s","u","p","e","r","m","a","r","k","e","t">>,
                   <<"w","h","o","l","e"," ","f","o","o","d","s">>,
                   <<"m","a","r","k","e","t">>,
                   <<"t","r","a","d","e","r">>>>],
    [category |-> <<"T","r","a","n","s","p","o","r","t">>,
     keywords |-> <<<<"u","b","e","r">>,
                   <<"l","y","f","t">>,
                   <<"g","a","s">>,
                   <<"f","u","e","l">>,
                   <<"s","h","e","l","l">>,
                   <<"e","x","x","o","n">>,
                   <<"r","i","d","e">>,
                   <<"t","a","x","i">>>>],
    [category |-> <<"S","u","b","s","c","r","i","p","t","i","o","n","s">>,
     keywords |-> <<<<"n","e","t","f","l","i","x">>,
                   <<"s","p","o","t","i","f","y">>,
                   <<"p","r","i","m","e">>,
                   <<"s","u","b","s","c","r","i","p","t","i","o","n">>,
                   <<"m","e","m","b","e","r","s","h","i","p">>,
                   <<"g","y","m">>,
                   <<"f","i","t","n","e","s","s">>,
                   <<"i","c","l","o","u","d">>>>],
    [category |-> <<"S","h","o","p","p","i","n","g">>,
     keywords |-> <<<<"a","m","a","z","o","n">>,
                   <<"s","h","o","p">>,
                   <<"p","u","r","c","h","a","s","e">>,
                   <<"s","t","o","r","e">>,
                   <<"m","a","l","l">>,
                   <<"t","a","r","g","e","t">>,
                   <<"w","a","l","m","a","r","t">>>>],
    [category |-> <<"E","n","t","e","r","t","a","i","n","m","e","n","t">>,
     keywords |-> <<<<"m","o","v","i","e">>,
                   <<"c","i","n","e","m","a">>,
                   <<"t","h","e","a","t","e","r">>,
                   <<"t","i","c","k","e","t">>,
                   <<"g","a","m","e">>,
                   <<"p","p","a","c">>>>],
    [category |-> <<"U","t","i","l","i","t","i","e","s">>,
     keywords |-> <<<<"e","l","e","c","t","r","i","c">>,
                   <<"w","a","t","e","r">>,
                   <<"i","n","t","e","r","n","e","t">>,
                   <<"p","h","o","n","e">>,
                   <<"u","t","i","l","i","t","y">>,
                   <<"b","i","l","l">>>>],
    [category |-> <<"H","e","a","l","t","h">>,
     keywords |-> <<<<"p","h","a","r","m","a","c","y">>,
                   <<"d","o","c","t","o","r">>,
                   <<"c","l","i","n","i","c">>,
                   <<"m","e","d","i","c","a","l">>,
                   <<"h","o","s","p","i","t","a","l">>,
                   <<"c","v","s">>>>]
  >>

RuleMatches(rule, text) ==
    \E k \in DOMAIN rule.keywords : includes(text, rule.keywords[k])

\* The loop without its early return: the last matching rule wins.
RECURSIVE lastRule(_, _)
lastRule(i, text) ==
    IF i > Len(CATEGORY_RULES) THEN <<"O","t","h","e","r">>
    ELSE IF lastRule(i + 1, text) # <<"O","t","h","e","r">> THEN lastRule(i + 1, text)
    ELSE IF RuleMatches(CATEGORY_RULES[i], text) THEN CATEGORY_RULES[i].category
    ELSE <<"O","t","h","e","r">>

\* The loop of categorizeTransaction over the rules from index i on.
RECURSIVE firstRule(_, _)
firstRule(i, text) ==
    IF i > Len(CATEGORY_RULES) THEN <<"O","t","h","e","r">>
    ELSE IF RuleMatches(CATEGORY_RULES[i], text) THEN CATEGORY_RULES[i].category
    ELSE firstRule(i + 1, text)

\* The rules are matched against `${description} ${merchant}`.toLowerCase().
categorizeTransaction(description, merchant) ==
    firstRule(1, toLowerCase(description \o <<" ">> \o merchant))

----------------------------------------------------------------------------
(* Plain objects *)

\* The methods every plain object inherits from Object.prototype.
ObjectPrototypeMethods ==
    {<<"c","o","n","s","t","r","u","c","t","o","r">>, <<"h","a","s","O","w","n","P","r","o","p","e","r","t","y">>, <<"i","s","P","r","o","t","o","t","y","p","e","O","f">>,
     <<"p","r","o","p","e","r","t","y","I","s","E","n","u","m","e","r","a","b","l","e">>, <<"t","o","L","o","c","a","l","e","S","t","r","i","n","g">>, <<"t","o","S","t","r","i","n","g">>, <<"v","a","l","u","e","O","f">>,
     <<"_","_","d","e","f","i","n","e","G","e","t","t","e","r","_","_">>, <<"_","_","d","e","f","i","n","e","S","e","t","t","e","r","_","_">>,
     <<"_","_","l","o","o","k","u","p","G","e","t","t","e","r","_","_">>, <<"_","_","l","o","o","k","u","p","S","e","t","t","e","r","_","_">>}

HasOwn(obj, k) == \E i \in DOMAIN obj : obj[i][1] = k

\* obj[k]: the own property, else what Object.prototype provides.
Get(obj, k) ==
    IF HasOwn(obj, k)
    THEN obj[CHOOSE i \in DOMAIN obj : obj[i][1] = k][2]
    ELSE IF k = <<"_","_","p","r","o","t","o","_","_">> THEN ObjectPrototype
    ELSE IF k \in ObjectPrototypeMethods
         THEN Fn(IF k = <<"c","o","n","s","t","r","u","c","t","o","r">> THEN <<"O","b","j","e","c","t">> ELSE k)
    ELSE Undef

\* obj[k] = v for a primitive v: an own property is created or overwritten,
\* except for __proto__, whose inherited setter ignores a primitive.
Put(obj, k, v) ==
    IF HasOwn(obj, k)
    THEN [i \in DOMAIN obj |-> IF obj[i][1] = k THEN <<k, v>> ELSE obj[i]]
    ELSE IF k = <<"_","_","p","r","o","t","o","_","_">> THEN obj
    ELSE Append(obj, <<k, v>>)

\* A key that is a canonical array index ("0", "7", "42", not "07"): such
\* keys are enumerated first, in ascending numeric order.
IsArrayIndex(k) ==
    /\ k # <<>>
    /\ \A i \in DOMAIN k : IsDigit(k[i])
    /\ (Len(k) > 1 => k[1] # "0")
    /\ \/ Len(k) < 10
       \/ Len(k) = 10 /\ ~StrLess(<<"4","2","9","4","9","6","7","2","9","4">>, k)

\* a < b as numbers, for two array index keys.
IndexLess(a, b) == Len(a) < Len(b) \/ (Len(a) = Len(b) /\ StrLess(a, b))

\* Object.entries(obj): array index keys in ascending numeric order, then the
\* other keys in creation order.
Entries(obj) ==
    LET idx  == SelectSeq(obj, LAMBDA e : IsArrayIndex(e[1]))
        rest == SelectSeq(obj, LAMBDA e : ~IsArrayIndex(e[1]))
        rank(e) == Cardinality({j \in DOMAIN idx : IndexLess(idx[j][1], e[1])})
        sorted == [r \in DOMAIN idx |->
                      idx[CHOOSE i \in DOMAIN idx : rank(idx[i]) = r - 1]]
    IN  sorted \o rest

\* Object.keys(obj)
Keys(obj) == LET es == Entries(obj) IN [i \in DOMAIN es |-> es[i][1]]

\* Array.prototype.findIndex, 0-based, -1 when no element satisfies P.
findIndex(xs, P(_)) ==
    IF \E i \in DOMAIN xs : P(xs[i])
    THEN (CHOOSE i \in DOMAIN xs : P(xs[i]) /\ \A j \in 1..(i - 1) : ~P(xs[j])) - 1
    ELSE -1

\* Array.prototype.find on a list of strings: the element, or undefined.
find(xs, P(_)) ==
    LET i == findIndex(xs, P) IN IF i < 0 THEN Undef ELSE Str(xs[i + 1])

\* values[i] of a list of strings: undefined outside 0..length-1.
At(values, i) ==
    IF i >= 0 /\ i < Len(values) THEN Str(values[i + 1]) ELSE Undef

----------------------------------------------------------------------------
(* The parsers *)

\* The role predicates on a (lowercased) header or key.
IsDateName(h)     == includes(h, <<"d","a","t","e">>)
IsMerchantName(h) ==
    includes(h, <<"m","e","r","c","h","a","n","t">>) \/ includes(h, <<"d","e","s","c","r","i","p","t","i","o","n">>) \/ includes(h, <<"n","a","m","e">>)
IsAmountName(h)   ==
    includes(h, <<"a","m","o","u","n","t">>) \/ includes(h, <<"p","r","i","c","e">>) \/ includes(h, <<"t","o","t","a","l">>)

Returned(v) == [threw |-> FALSE, value |-> v]
Threw       == [threw |-> TRUE,  value |-> <<>>]

\* The header row of parseCSV: lowercased, split on commas, each trimmed.
csvHeaders(line) ==
    LET hs == split(toLowerCase(line), ",") IN [i \in DOMAIN hs |-> trim(hs[i])]

\* One iteration of parseCSV's loop, on the data line `line`: "skip" when
\* the header has no date or no amount column; "throw" when the row has no
\* field at the amount position (values[amountIdx] is undefined and
\* .replace is called on it); else the transaction pushed.
csvRow(headers, line, now) ==
    LET vs          == split(line, ",")
        values      == [i \in DOMAIN vs |-> trim(vs[i])]
        dateIdx     == findIndex(headers, IsDateName)
        merchantIdx == findIndex(headers, IsMerchantName)
        amountIdx   == findIndex(headers, IsAmountName)
        descIdx     == findIndex(headers, LAMBDA h : includes(h, <<"d","e","s","c","r","i","p","t","i","o","n">>))
        merchant    == or(At(values, merchantIdx), Str(<<"U","n","k","n","o","w","n">>))
        description == or(At(values, descIdx), merchant)
    IN  IF ~(dateIdx >= 0 /\ amountIdx >= 0) THEN [kind |-> "skip"]
        ELSE IF At(values, amountIdx) = Undef THEN [kind |-> "throw"]
        ELSE [kind |-> "push",
              txn  |-> [date        |-> or(At(values, dateIdx), Str(now)),
                        merchant    |-> merchant,
                        amount      |-> amountOf(stripAmount(At(values, amountIdx).s)),
                        category    |-> Str(categorizeTransaction(description.s,
                                                                  merchant.s)),
                        description |-> description]]

\* parseCSV's loop over lines[i..], with the transactions pushed so far.
RECURSIVE csvLoop(_, _, _, _, _)
csvLoop(headers, lines, i, now, transactions) ==
    IF i > Len(lines) THEN Returned(transactions)
    ELSE LET r == csvRow(headers, lines[i], now)
         IN  IF r.kind = "throw" THEN Threw
             ELSE csvLoop(headers, lines, i + 1, now,
                          IF r.kind = "push"
                          THEN Append(transactions, r.txn)
                          ELSE transactions)

parseCSV(content, now) ==
    LET lines == SelectSeq(split(content, "\n"), LAMBDA l : trim(l) # <<>>)
    IN  IF Len(lines) < 2 THEN Returned(<<>>)
        ELSE csvLoop(csvHeaders(lines[1]), lines, 2, now, <<>>)

\* One iteration of parseExcel's loop, on one row object of sheet_to_json.
excelRow(row, now) ==
    LET keys        == Keys(row)
        dateKey     == find(keys, LAMBDA k : IsDateName(toLowerCase(k)))
        merchantKey == find(keys, LAMBDA k : IsMerchantName(toLowerCase(k)))
        amountKey   == find(keys, LAMBDA k : IsAmountName(toLowerCase(k)))
        categoryKey == find(keys, LAMBDA k : includes(toLowerCase(k), <<"c","a","t","e","g","o","r","y">>)
                                       \/ includes(toLowerCase(k), <<"t","y","p","e">>))
    IN  IF ~(truthy(dateKey) /\ truthy(amountKey)) THEN [kind |-> "skip"]
        ELSE [kind |-> "push",
              txn  |-> [date        |-> or(Get(row, dateKey.s), Str(now)),
                        merchant    |-> or(Get(row, or(merchantKey, Str(<<>>)).s),
                                           Str(<<"U","n","k","n","o","w","n">>)),
                        amount      |-> amountOf(stripAmount(toStr(Get(row, amountKey.s)))),
                        category    |-> or(Get(row, or(categoryKey, Str(<<>>)).s),
                                           Str(<<"U","n","c","a","t","e","g","o","r","i","z","e","d">>)),
                        description |-> Undef]]

RECURSIVE excelLoop(_, _, _, _)
excelLoop(rows, i, now, transactions) ==
    IF i > Len(rows) THEN transactions
    ELSE LET r == excelRow(rows[i], now)
         IN  excelLoop(rows, i + 1, now,
                       IF r.kind = "push"
                       THEN Append(transactions, r.txn)
                       ELSE transactions)

\* parseExcel of a workbook: book.ok is whether XLSX.read and sheet_to_json
\* succeed on the bytes, book.rows the row objects of the first sheet.  A
\* failure of the library is caught and answered with the empty list.
parseExcel(book, now) ==
    IF ~book.ok THEN Returned(<<>>)
    ELSE IF Len(book.rows) = 0 THEN Returned(<<>>)
    ELSE Returned(excelLoop(book.rows, 1, now, <<>>))

\* parsePDF
parsePDF(bytes) == Returned(<<>>)

----------------------------------------------------------------------------
(* The analytics engine *)

MonthKeyLen     == 7
TopMerchantsMax == 10
RecentMonths    == 3
BaseScore       == 75
HighMonthly     == 3000
HighPenalty     == 15
VeryHighMonthly == 5000
VeryHighPenalty == 10
DiningPenalty   == 10

Null == [isNull |-> TRUE, nextMonthSpend |-> NaN, confidence |-> "", method |-> ""]

EmptyReport ==
    [totals       |-> [transactionCount |-> 0, totalSpent |-> Num(0),
                       avgSpendPerTxn |-> [num |-> Num(0), den |-> 1]],
     byCategory   |-> <<>>,
     byMonth      |-> <<>>,
     topMerchants |-> <<>>,
     budget       |-> <<>>,
     forecast     |-> Null,
     healthScore  |-> [score |-> 0, summary |-> "No data available"],
     periodHint   |-> [start |-> <<>>, end |-> <<>>, monthsDetected |-> 0]]

\* transactions.reduce((sum, t) => sum + t.amount, 0)
RECURSIVE sumAmounts(_)
sumAmounts(transactions) ==
    IF transactions = <<>> THEN Num(0)
    ELSE addDoubles(sumAmounts(SubSeq(transactions, 1, Len(transactions) - 1)),
                    Num(transactions[Len(transactions)].amount))

\* obj[k] = (obj[k] || 0) + amount
accumulate(obj, k, amount) ==
    Put(obj, k, plus(or(Get(obj, k), Num(0)), Num(amount)))

\* The forEach that fills byCategory, over the first i transactions.
RECURSIVE byCategoryOf(_, _)
byCategoryOf(transactions, i) ==
    IF i = 0 THEN <<>>
    ELSE accumulate(byCategoryOf(transactions, i - 1),
                    toStr(transactions[i].category), transactions[i].amount)

\* The forEach that fills byMonth, over the first i transactions; the key
\* is t.date.substring(0, 7).
RECURSIVE byMonthOf(_, _)
byMonthOf(transactions, i) ==
    IF i = 0 THEN <<>>
    ELSE accumulate(byMonthOf(transactions, i - 1),
                    substring(transactions[i].date.s, MonthKeyLen),
                    transactions[i].amount)

\* One step of the forEach that fills merchantMap.  A name that
\* Object.prototype already provides reads as truthy, so no own entry is
\* created for it and the += lands on the inherited object, not on the map.
merchantStep(merchantMap, t) ==
    LET k == toStr(t.merchant)
    IN  IF HasOwn(merchantMap, k)
        THEN [i \in DOMAIN merchantMap |->
                 IF merchantMap[i][1] = k
                 THEN <<k, [spent |-> addDoubles(merchantMap[i][2].spent,
                                                 Num(t.amount)),
                            count |-> merchantMap[i][2].count + 1]>>
                 ELSE merchantMap[i]]
        ELSE IF truthy(Get(merchantMap, k)) THEN merchantMap
        ELSE Append(merchantMap, <<k, [spent |-> Num(t.amount), count |-> 1]>>)

RECURSIVE merchantMapOf(_, _)
merchantMapOf(transactions, i) ==
    IF i = 0 THEN <<>>
    ELSE merchantStep(merchantMapOf(transactions, i - 1), transactions[i])

\* xs.sort((a, b) => b.spent - a.spent): a stable sort, descending by spent.
sortBySpent(xs) ==
    LET pos(i) == Cardinality({j \in DOMAIN xs : lessThan(xs[i].spent, xs[j].spent)})
                  + Cardinality({j \in 1..(i - 1) : xs[j].spent = xs[i].spent})
    IN  [p \in DOMAIN xs |-> xs[CHOOSE i \in DOMAIN xs : pos(i) = p - 1]]

\* Object.entries(merchantMap).map(...).sort(...).slice(0, 10)
topMerchantsOf(merchantMap) ==
    LET es     == Entries(merchantMap)
        rows   == [i \in DOMAIN es |-> [merchant |-> es[i][1],
                                        spent    |-> es[i][2].spent,
                                        count    |-> es[i][2].count]]
        sorted == sortBySpent(rows)
    IN  SubSeq(sorted, 1, IF Len(sorted) < TopMerchantsMax
                          THEN Len(sorted) ELSE TopMerchantsMax)

\* The largest power of two p, 2p, 4p, ... that is not above k: the binade
\* of the double k.
RECURSIVE binade(_, _)
binade(k, p) == IF 2 * p > k THEN p ELSE binade(k, 2 * p)

\* The product 10m * 1.1 of a double (n, e) next to the whole multiple of
\* ten 10m rounds to a double above 11m.  The double 1.1 is
\* 11/10 + 0.4 * 2^-52, so the product is above 11m by 11 * e / 10 units and
\* 4m * 2^-52, and rounds up exactly when that is more than half the spacing
\* 2^-52 * binade(11m) of the doubles at 11m; a tie goes to 11m, whose last
\* bit is even, unless e > 0 puts the product above the tie.  The comparison
\* is in 640 units: e is a multiple of 6400 for a double of 10 or more.
\*
\* Math.ceil(spent * 1.1) in binary floating point.  An amount that is not
\* next to a multiple of ten has a product at least 0.001 away from a whole
\* number, and its ceiling is the exact one.
ceilTenth(v) ==
    IF v.t = "nan" THEN NaN
    ELSE IF v.n > 0 /\ v.n % (10 * Scale) = 0
    THEN LET m == v.n \div (10 * Scale)
             d == 11 * (v.e \div 6400) + 40 * m - 5 * binade(11 * m, 1)
         IN  Num(Scale * (11 * m + IF d > 0 \/ (d = 0 /\ v.e > 0) THEN 1 ELSE 0))
    ELSE Num(Scale * (-((-(11 * v.n)) \div (10 * Scale))))

\* Math.round(sum / n): the quotient is rounded to a double, then half up to
\* a whole number.  The double matters when the decimal quotient is h + 0.5:
\* a sum below its decimal value by more than n times half the distance
\* from h + 0.5 to the double below it has a quotient that rounds below
\* h + 0.5, and the result is h (a tie goes to h + 0.5, whose last bit is
\* even).  Half that distance, in units of error, is 2^-53 * binade(h), and
\* 2^-55 below 0.5, a power of two.
roundHalfUp(v, n) ==
    IF v.t = "nan" THEN NaN
    ELSE IF /\ v.n > 0
            /\ v.n % (Scale * n) = (Scale \div 2) * n
            /\ -v.e > n * IF v.n \div (Scale * n) = 0 THEN 25 * pow2(5)
                          ELSE 25 * pow2(7) * binade(v.n \div (Scale * n), 1)
    THEN Num(Scale * (v.n \div (Scale * n)))
    ELSE Num(Scale * ((2 * v.n + Scale * n) \div (2 * Scale * n)))

\* recentMonths.reduce((sum, m) => sum + byMonth[m], 0)
RECURSIVE sumMonths(_, _)
sumMonths(byMonth, ms) ==
    IF ms = <<>> THEN Num(0)
    ELSE plus(sumMonths(byMonth, SubSeq(ms, 1, Len(ms) - 1)),
              Get(byMonth, ms[Len(ms)]))

\* months.slice(-3)
lastMonths(months) ==
    SubSeq(months,
           IF Len(months) > RecentMonths THEN Len(months) - RecentMonths + 1 ELSE 1,
           Len(months))

\* The forecast, given months = Object.keys(byMonth).sort().
forecastFrom(byMonth, months) ==
    IF Len(months) >= 2
    THEN [isNull         |-> FALSE,
          nextMonthSpend |->
              roundHalfUp(toNumber(sumMonths(byMonth, lastMonths(months))),
                          Len(lastMonths(months))),
          confidence     |-> IF Len(months) >= RecentMonths
                             THEN "High" ELSE "Medium",
          method         |-> "Average of last 3 months"]
    ELSE Null

forecastOf(byMonth) == forecastFrom(byMonth, sortStrings(Keys(byMonth)))

\* totalSpent / months > limit; a division by zero months gives Infinity
\* for a positive total and NaN for 0.  When the decimal quotient is the
\* limit, the quotient rounds to a double above the limit exactly when the
\* total is above its decimal value by more than months times half the
\* spacing 2^-52 * binade(limit) of the doubles at the limit (a tie goes to
\* the limit, whose last bit is even).
monthlyAbove(totalSpent, months, limit) ==
    IF months = 0 THEN totalSpent.n > 0
    ELSE IF totalSpent.n # limit * Scale * months
    THEN totalSpent.n > limit * Scale * months
    ELSE totalSpent.e > months * 25 * pow2(7) * binade(limit, 1)

\* x > totalSpent * 0.3: the decimal values decide unless x is three tenths
\* of the decimal total, and then the doubles do.  The double 0.3 is
\* 3/10 - 0.2 * 2^-54, so the product of the total (n, e) is, in tenths of a
\* unit of error, 3e - 32n beside the decimal 3n / 10, less 0.2 * 2^-54 * e
\* units; it is then rounded.
aboveThreeTenths(x, totalSpent) ==
    IF 10 * x.n # 3 * totalSpent.n THEN 10 * x.n > 3 * totalSpent.n
    ELSE x.e > roundToDouble(x.n, 3 * totalSpent.e - 32 * totalSpent.n, 10,
                             IF totalSpent.e > 0 THEN -1
                             ELSE IF totalSpent.e < 0 THEN 1 ELSE 0)

\* d && d > totalSpent * 0.3, for d = byCategory['Dining']
exceedsShare(d, totalSpent) ==
    truthy(d) /\ toNumber(d).t = "num" /\ aboveThreeTenths(toNumber(d), totalSpent)

\* Math.max(0, Math.min(100, score)) and the summary, which the code picks
\* from the score before it is clamped.
scored(score) ==
    [score   |-> IF score > 100 THEN 100 ELSE IF score < 0 THEN 0 ELSE score,
     summary |-> IF score >= 80 THEN "Excellent financial health!"
                 ELSE IF score >= 60 THEN "Good, with room for improvement"
                 ELSE "Consider reducing spending"]

\* The score after the three independent penalties.
penalized(high, veryHigh, dining) ==
    BaseScore
    - (IF high THEN HighPenalty ELSE 0)
    - (IF veryHigh THEN VeryHighPenalty ELSE 0)
    - (IF dining THEN DiningPenalty ELSE 0)

healthScoreOf(totalSpent, byCategory, byMonth) ==
    scored(penalized(monthlyAbove(totalSpent, Len(Keys(byMonth)), HighMonthly),
                     monthlyAbove(totalSpent, Len(Keys(byMonth)), VeryHighMonthly),
                     exceedsShare(Get(byCategory, <<"D","i","n","i","n","g">>), totalSpent)))

\* dates[0] and dates[dates.length - 1] of the sorted dates.
periodOf(dates, monthsDetected) ==
    [start |-> dates[1], end |-> dates[Len(dates)],
     monthsDetected |-> monthsDetected]

periodHintOf(transactions, byMonth) ==
    periodOf(sortStrings([i \in DOMAIN transactions |->
                             toStr(transactions[i].date)]),
             Len(Keys(byMonth)))

\* Object.entries(byCategory).forEach(([cat, spent]) => budget[cat] = ...)
budgetsOf(cats) == [i \in DOMAIN cats |-> <<cats[i][1], ceilTenth(toNumber(cats[i][2]))>>]

\* The report of a non-empty list, from its three aggregates.
reportOf(transactions, totalSpent, byCategory, byMonth) ==
    [totals       |-> [transactionCount |-> Len(transactions),
                       totalSpent       |-> totalSpent,
                       avgSpendPerTxn   |-> [num |-> totalSpent,
                                             den |-> Len(transactions)]],
     byCategory   |-> byCategory,
     byMonth      |-> byMonth,
     topMerchants |-> topMerchantsOf(merchantMapOf(transactions,
                                                   Len(transactions))),
     budget       |-> budgetsOf(Entries(byCategory)),
     forecast     |-> forecastOf(byMonth),
     healthScore  |-> healthScoreOf(totalSpent, byCategory, byMonth),
     periodHint   |-> periodHintOf(transactions, byMonth)]

\* generateReport.  It throws (t.date.substring is not a function) when a
\* transaction's date is not a string.
generateReport(transactions) ==
    IF Len(transactions) = 0 THEN Returned(EmptyReport)
    ELSE IF \E i \in DOMAIN transactions : transactions[i].date.t # "str"
    THEN Threw
    ELSE Returned(reportOf(transactions,
                           sumAmounts(transactions),
                           byCategoryOf(transactions, Len(transactions)),
                           byMonthOf(transactions, Len(transactions))))

----------------------------------------------------------------------------
(* The upload path: handleUpload's choice of parser, then generateReport *)

\* The largest number of data rows of an uploaded file.
MaxRows == 2

\* The largest number of transactions of a list given to generateReport.
MaxTxns == 4

SeqsUpTo(S, n) == UNION {[1..k -> S] : k \in 0..n}

RECURSIVE joinLines(_)
joinLines(ls) ==
    IF ls = <<>> THEN <<>>
    ELSE IF Len(ls) = 1 THEN ls[1]
    ELSE ls[1] \o <<"\n">> \o joinLines(Tail(ls))

CsvHeaderLines ==
    {<<"D","a","t","e",",","M","e","r","c","h","a","n","t",",","A","m","o","u","n","t">>,
     <<"D","a","t","e",",","A","m","o","u","n","t">>,
     <<"A","m","o","u","n","t",",","D","a","t","e">>,
     <<"P","o","s","t","e","d",",","M","e","r","c","h","a","n","t",",","T","o","t","a","l">>,
     <<" ","T","r","a","n","s"," ","D","a","t","e"," ",","," ","D","e","s","c","r","i","p","t","i","o","n"," ",","," ","P","r","i","c","e"," ">>}

CsvRowLines ==
    {<<"2","0","2","4","-","0","1","-","0","5",",","S","t","a","r","b","u","c","k","s",",","-","4",".","5","0">>,
     <<"2","0","2","4","-","0","1","-","2","0",",","S","h","e","l","l"," ","G","a","s",",","4","0",".","0","0">>,
     <<"2","0","2","4","-","0","2","-","0","1",",","S","h","o","p",",","N","/","A">>,
     <<",","S","h","o","p",",","5">>,
     <<"2","0","2","4","-","0","1","-","0","5",",","S","t","a","r","b","u","c","k","s">>,
     <<"1","/","5","/","2","4",",","C","a","f","e",",","$","1","2",".","5","\r">>,
     <<" "," "," ">>,
     <<"2","0","2","4","-","0","3","-","0","1",",","U","b","e","r",",">>,
     <<"7">>}

CsvContents ==
    {<<>>} \cup
    {joinLines(<<h>> \o rows) :
        h \in CsvHeaderLines, rows \in SeqsUpTo(CsvRowLines, MaxRows)}

\* Row objects as sheet_to_json yields them: a cell's value is a string or a
\* number (a date cell is a serial number), an empty cell has no key.
ExcelRows ==
    {<< <<<<"D","a","t","e">>, Str(<<"2","0","2","4","-","0","1","-","0","5">>)>>, <<<<"M","e","r","c","h","a","n","t">>, Str(<<"S","t","a","r","b","u","c","k","s">>)>>,
        <<<<"A","m","o","u","n","t">>, Num(-450)>> >>,
     << <<<<"D","a","t","e">>, Num(4529600)>>, <<<<"D","e","s","c","r","i","p","t","i","o","n">>, Str(<<"S","h","e","l","l">>)>>,
        <<<<"T","o","t","a","l">>, Str(<<"4","0",".","0","0">>)>>, <<<<"C","a","t","e","g","o","r","y">>, Str(<<"T","r","a","n","s","p","o","r","t">>)>> >>,
     << <<<<"D","a","t","e">>, Str(<<"2","0","2","4","-","0","2","-","0","1">>)>>, <<<<"N","a","m","e">>, Str(<<"S","h","o","p">>)>>,
        <<<<"A","m","o","u","n","t">>, Str(<<"N","/","A">>)>>, <<<<"T","y","p","e">>, Str(<<"c","o","n","s","t","r","u","c","t","o","r">>)>> >>,
     << <<<<"M","e","r","c","h","a","n","t">>, Str(<<"C","a","f","e">>)>>, <<<<"A","m","o","u","n","t">>, Num(500)>> >>,
     << <<<<"D","a","t","e">>, Str(<<"0","1","/","0","5","/","2","0","2","4">>)>>, <<<<"A","m","o","u","n","t">>, Str(<<"$","1",",","2","0","0",".","5","0">>)>> >>,
     << <<<<"T","r","a","n","s"," ","D","a","t","e">>, Str(<<"2","0","2","4","-","0","3","-","0","1">>)>>, <<<<"P","r","i","c","e">>, Num(1200)>>,
        <<<<"M","e","r","c","h","a","n","t">>, Num(700)>> >>,
     << <<<<"D","a","t","e">>, Str(<<"2","0","2","4","-","0","1","-","0","7">>)>> >>}

NoBook == [ok |-> FALSE, rows |-> <<>>]

ExcelBooks ==
    {NoBook} \cup {[ok |-> TRUE, rows |-> rows] : rows \in SeqsUpTo(ExcelRows, MaxRows)}

Files ==
    {[ext |-> "csv", content |-> c, book |-> NoBook] : c \in CsvContents}
    \cup {[ext |-> e, content |-> <<>>, book |-> b] :
            e \in {"xlsx", "xls"}, b \in ExcelBooks}
    \cup {[ext |-> e, content |-> <<>>, book |-> NoBook] : e \in {"pdf", "txt"}}

Todays == {<<"2","0","2","4","-","0","6","-","1","5">>, <<"2","0","2","6","-","1","0","-","3","1">>}

NoFile == [ext |-> "", content |-> <<>>, book |-> NoBook]
NoCat  == [description |-> <<>>, merchant |-> <<>>]

\* A response of handleUpload, or of handleChat for a request that does not
\* reach the agent: its status and either the error of its body ("" when
\* none) or the sessionId (0 when none).
Response(status, error, sessionId) ==
    [status |-> status, error |-> error, sessionId |-> sessionId]

NoResponse == Response("", "", 0)

\* A chat request that reached the agent and where it stands: pc is
\* "running" (awaiting the agent's events), "completed" or "failed" (the
\* agent run ended, or threw); prompt is the history slice put in the task
\* prompt; status, reply and withReport are the response.
Chat(pc_, sessionId, message, prompt, status, reply, withReport) ==
    [pc |-> pc_, sessionId |-> sessionId, message |-> message,
     prompt |-> prompt, status |-> status, reply |-> reply,
     withReport |-> withReport]

\* Map.prototype.has / get / set on the sessions Map.
MapHas(map, key) == key \in DOMAIN map
MapGet(map, key) == map[key]
MapSet(map, key, value) ==
    [k \in DOMAIN map \cup {key} |-> IF k = key THEN value ELSE map[k]]

\* A generator that hands out the same id again.
reusedSessionId(map) == 1

\* generateSessionId: crypto.randomUUID() is an id no session has yet.  Ids
\* are numbered in the order they are handed out.
generateSessionId(map) == Cardinality(DOMAIN map) + 1

\* The SessionData handleUpload builds.  Files carry their extension only,
\* so fileName is left out.
SessionData(sessionId, transactions) ==
    [sessionId           |-> sessionId,
     transactions        |-> transactions,
     currency            |-> "USD",
     conversationHistory |-> <<>>]

\* What follows the parser in handleUpload: the report of its result, when
\* it returned one.
reportAfter(p) == IF p.threw THEN Returned(EmptyReport) ELSE generateReport(p.value)

InitUpload ==
    /\ pc = "ready"
    /\ file \in Files
    /\ today \in Todays
    /\ parsed = Returned(<<>>)
    /\ report = Returned(EmptyReport)
    /\ txns = <<>>
    /\ catIn = NoCat
    /\ catOut = <<>>
    /\ sessions = <<>>
    /\ response = NoResponse
    /\ chats = <<>>

\* The rest of handleUpload once the parser has answered p: the session is
\* set in the Map under a new id, the report is generated and the response
\* is 200; an exception of the parser (before the session is made) or of
\* generateReport (after it) is caught and answered 500.  pc holds the
\* response status.
Finish(p) ==
    /\ parsed' = p
    /\ report' = reportAfter(parsed')
    /\ sessions' = IF parsed'.threw THEN sessions
                   ELSE MapSet(sessions, generateSessionId(sessions),
                               SessionData(generateSessionId(sessions),
                                           parsed'.value))
    /\ pc' = IF parsed'.threw \/ report'.threw THEN "500" ELSE "200"
    /\ response' = IF pc' = "500"
                   THEN Response("500", "Failed to process file", 0)
                   ELSE Response("200", "", generateSessionId(sessions))
    /\ UNCHANGED <<file, today, txns, catIn, catOut, chats>>

UploadCSV ==
    /\ pc = "ready"
    /\ file.ext = "csv"
    /\ Finish(parseCSV(file.content, today))

UploadExcel ==
    /\ pc = "ready"
    /\ file.ext \in {"xlsx", "xls"}
    /\ Finish(parseExcel(file.book, today))

UploadPDF ==
    /\ pc = "ready"
    /\ file.ext = "pdf"
    /\ Finish(parsePDF(file.content))

UploadUnsupported ==
    /\ pc = "ready"
    /\ file.ext \notin {"csv", "xlsx", "xls", "pdf"}
    /\ pc' = "400"
    /\ response' = Response("400", "Unsupported file type", 0)
    /\ UNCHANGED <<file, today, parsed, report, txns, catIn, catOut, sessions, chats>>

NextUpload == UploadCSV \/ UploadExcel \/ UploadPDF \/ UploadUnsupported

SpecUpload == InitUpload /\ [][NextUpload]_vars

----------------------------------------------------------------------------
(* generateReport on transaction lists *)

Txn(date, merchant, amount, category) ==
    [date |-> Str(date), merchant |-> Str(merchant), amount |-> amount,
     category |-> Str(category), description |-> Str(merchant)]

\* Transactions of the declared type (date, merchant and category are
\* strings, amount a number >= 0, in hundredths).
TxnPool ==
    {Txn(<<"2","0","2","4","-","0","1","-","0","5">>, <<"S","t","a","r","b","u","c","k","s">>,   3 * Scale,    <<"D","i","n","i","n","g">>),
     Txn(<<"2","0","2","4","-","0","2","-","2","0">>, <<"S","h","e","l","l">>,       7 * Scale,    <<"T","r","a","n","s","p","o","r","t">>),
     Txn(<<"2","0","2","4","-","0","3","-","0","1">>, <<"7">>,           3 * Scale,    <<"O","t","h","e","r">>),
     Txn(<<"2","0","2","4","-","0","4","-","0","2">>, <<"L","a","n","d","l","o","r","d">>,    3000 * Scale, <<"O","t","h","e","r">>),
     Txn(<<"2","0","2","4","-","0","4","-","1","5">>, <<"L","a","n","d","l","o","r","d">>,    5000 * Scale, <<"O","t","h","e","r">>),
     Txn(<<"2","0","2","4","-","0","4","-","2","0">>, <<"G","r","i","l","l"," ","H","o","u","s","e">>, 6000 * Scale, <<"D","i","n","i","n","g">>),
     Txn(<<"v","a","l","u","e","O","f">>,    <<"S","h","o","p">>,        3 * Scale,    <<"c","o","n","s","t","r","u","c","t","o","r">>),
     Txn(<<"2","0","2","3","-","1","2","-","3","1">>, <<"S","t","a","r","b","u","c","k","s">>,   0,            <<"D","i","n","i","n","g">>),
     Txn(<<"2","0","2","4","-","0","1","-","0","5">>, <<"S","t","a","r","b","u","c","k","s">>,   90,           <<"D","i","n","i","n","g">>),
     Txn(<<"2","0","2","4","-","0","1","-","2","0">>, <<"S","h","e","l","l">>,       210,          <<"T","r","a","n","s","p","o","r","t">>)}

InitReport ==
    /\ pc = "report"
    /\ txns = <<>>
    /\ report = generateReport(<<>>)
    /\ file = NoFile
    /\ today = <<>>
    /\ parsed = Returned(<<>>)
    /\ catIn = NoCat
    /\ catOut = <<>>
    /\ sessions = <<>>
    /\ response = NoResponse
    /\ chats = <<>>

\* A caller holding one more transaction asks for the report of its list.
AddTransaction ==
    /\ Len(txns) < MaxTxns
    /\ \E t \in TxnPool : txns' = Append(txns, t)
    /\ report' = generateReport(txns')
    /\ UNCHANGED <<pc, file, today, parsed, catIn, catOut, sessions, response, chats>>

NextReport == AddTransaction

SpecReport == InitReport /\ [][NextReport]_vars

----------------------------------------------------------------------------
(* categorizeTransaction on descriptions and merchants *)

CatDescriptions ==
    {<<>>,
     <<"S","t","a","r","b","u","c","k","s"," ","C","o","f","f","e","e">>,
     <<"S","T","A","R","B","U","C","K","S"," ","#","1","2","3","4"," ","g","a","s"," ","s","t","a","t","i","o","n">>,
     <<"W","h","o","l","e"," ","F","o","o","d","s"," ","M","a","r","k","e","t">>,
     <<"W","e","e","k","l","y"," ","g","r","o","c","e","r","y"," ","r","u","n">>,
     <<"U","b","e","r"," ","r","i","d","e">>,
     <<"A","m","a","z","o","n"," ","P","r","i","m","e">>,
     <<"M","o","v","i","e"," ","t","i","c","k","e","t">>,
     <<"W","a","t","e","r"," ","b","i","l","l">>,
     <<"C","V","S"," ","P","h","a","r","m","a","c","y">>,
     <<"R","e","n","t">>}

CatMerchants ==
    {<<"U","n","k","n","o","w","n">>,
     <<"S","t","a","r","b","u","c","k","s">>,
     <<"S","h","e","l","l"," ","G","a","s">>,
     <<"T","r","a","d","e","r"," ","J","o","e","s">>,
     <<"W","a","l","m","a","r","t">>,
     <<"N","E","T","F","L","I","X">>,
     <<"C","i","t","y"," ","C","l","i","n","i","c">>,
     <<"A","c","m","e">>}

InitCat ==
    /\ pc = "ready"
    /\ catIn \in [description : CatDescriptions, merchant : CatMerchants]
    /\ catOut = <<>>
    /\ sessions = <<>>
    /\ response = NoResponse
    /\ chats = <<>>
    /\ file = NoFile
    /\ today = <<>>
    /\ parsed = Returned(<<>>)
    /\ txns = <<>>
    /\ report = Returned(EmptyReport)

Categorize ==
    /\ pc = "ready"
    /\ catOut' = categorizeTransaction(catIn.description, catIn.merchant)
    /\ pc' = "done"
    /\ UNCHANGED <<file, today, parsed, txns, report, catIn, sessions, response, chats>>

NextCat == Categorize

SpecCat == InitCat /\ [][NextCat]_vars

----------------------------------------------------------------------------
(* The session store: handleUpload and handleChat serving requests *)

\* The largest number of sessions stored.
MaxSessions == 2

\* The largest number of chat requests that reach the agent.
MaxChats == 2

\* sessionData.conversationHistory.slice(-8)
HistoryWindow == 8

\* handleUpload's choice of parser by extension.
parseUpload(f, now) ==
    IF f.ext = "csv" THEN parseCSV(f.content, now)
    ELSE IF f.ext \in {"xlsx", "xls"} THEN parseExcel(f.book, now)
    ELSE parsePDF(f.content)

SupportedExts == {"csv", "xlsx", "xls", "pdf"}

\* The files uploaded to the server: a statement of two rows, a statement
\* whose row lacks the amount field (parseCSV throws), a workbook whose date
\* cell is numeric (generateReport throws), and a text file.
ServerFiles ==
    {[ext |-> "csv", book |-> NoBook,
      content |-> joinLines(<<<<"D","a","t","e",",","M","e","r","c","h","a","n","t",",","A","m","o","u","n","t">>,
                              <<"2","0","2","4","-","0","1","-","0","5",",","S","t","a","r","b","u","c","k","s",",","-","4",".","5","0">>,
                              <<"2","0","2","4","-","0","1","-","2","0",",","S","h","e","l","l"," ","G","a","s",",","4","0",".","0","0">>>>)],
     [ext |-> "csv", book |-> NoBook,
      content |-> joinLines(<<<<"D","a","t","e",",","M","e","r","c","h","a","n","t",",","A","m","o","u","n","t">>, <<"2","0","2","4","-","0","1","-","0","5",",","S","t","a","r","b","u","c","k","s">>>>)],
     [ext |-> "xlsx", content |-> <<>>,
      book |-> [ok |-> TRUE, rows |->
         << << <<<<"D","a","t","e">>, Num(4529600)>>, <<<<"D","e","s","c","r","i","p","t","i","o","n">>, Str(<<"S","h","e","l","l">>)>>,
               <<<<"T","o","t","a","l">>, Str(<<"4","0",".","0","0">>)>>, <<<<"C","a","t","e","g","o","r","y">>, Str(<<"T","r","a","n","s","p","o","r","t">>)>> >> >>]],
     [ext |-> "txt", content |-> <<>>, book |-> NoBook]}

\* The day the server runs: new Date().toISOString().split('T')[0].
ServerToday == <<"2","0","2","4","-","0","6","-","1","5">>

\* What the parser handleUpload chooses answers for each file uploaded.
ParsedUploads ==
    {[file |-> f, parsed |-> parseUpload(f, ServerToday)] :
        f \in {g \in ServerFiles : g.ext \in SupportedExts}}

\* The message of a chat request's JSON body.
ChatMessages == {Str(<<"U","p","d","a","t","e"," ","m","y"," ","b","u","d","g","e","t">>), Str(<<>>)}

\* What the agent's event stream adds up to (fullResponse).
AgentTexts == {<<" ","S","p","e","n","d"," ","l","e","s","s","."," ">>, <<" "," ">>}

AgentErrorText ==
    <<"I"," ","e","n","c","o","u","n","t","e","r","e","d"," ","a","n"," ","e","r","r","o","r","."," ","P","l","e","a","s","e"," ","t","r","y"," ","a","g","a","i","n"," ","w","i","t","h"," ","a"," ","s","i","m","p","l","e","r"," ","q","u","e","s","t","i","o","n",".">>

\* finalText = fullResponse.trim() || "I received your question but ..."
finalTextOf(fullResponse) ==
    IF trim(fullResponse) = <<>>
    THEN <<"I"," ","r","e","c","e","i","v","e","d"," ","y","o","u","r"," ","q","u","e","s","t","i","o","n"," ","b","u","t"," ","c","o","u","l","d","n","'","t"," ","g","e","n","e","r","a","t","e"," ","a"," ","r","e","s","p","o","n","s","e","."," ","P","l","e","a","s","e"," ","t","r","y"," ","r","e","p","h","r","a","s","i","n","g",".">>
    ELSE trim(fullResponse)

\* history.slice(-n)
lastEntries(history, n) ==
    SubSeq(history, IF Len(history) > n THEN Len(history) - n + 1 ELSE 1,
           Len(history))

\* amt.toFixed(2) in the system prompt: a TypeError when a value of
\* byCategory or of byMonth is not a number.
toFixedThrows(entries) ==
    \E i \in DOMAIN entries : entries[i][2].t \notin {"num", "nan"}

\* The part of chatWithAgent before its try block: generateReport and the
\* system prompt.  An exception of either reaches handleChat's catch.
promptThrows(transactions) ==
    IF generateReport(transactions).threw THEN TRUE
    ELSE \/ toFixedThrows(generateReport(transactions).value.byCategory)
         \/ toFixedThrows(generateReport(transactions).value.byMonth)

\* shouldUpdateReport
shouldUpdateReport(q) ==
    \/ includes(q, <<"a","n","a","l","y">>)
    \/ includes(q, <<"r","e","p","o","r","t">>)
    \/ includes(q, <<"c","h","a","r","t">>)
    \/ includes(q, <<"t","r","e","n","d">>)
    \/ includes(q, <<"b","u","d","g","e","t">>)
    \/ includes(q, <<"f","o","r","e","c","a","s","t">>)
    \/ includes(q, <<"u","p","d","a","t","e">>)

\* The pushes in the opposite order.
pushReplyFirst(history, userMessage, finalText) ==
    history \o <<[role |-> "assistant", content |-> Str(finalText)],
                 [role |-> "user", content |-> userMessage]>>

\* conversationHistory.push({role: "user", ...}); push({role: "assistant", ...})
pushPair(history, userMessage, finalText) ==
    history \o <<[role |-> "user", content |-> userMessage],
                 [role |-> "assistant", content |-> Str(finalText)]>>

InitServer ==
    /\ pc = "serving"
    /\ sessions = <<>>
    /\ response = NoResponse
    /\ chats = <<>>
    /\ today = ServerToday
    /\ file = NoFile
    /\ parsed = Returned(<<>>)
    /\ report = Returned(EmptyReport)
    /\ txns = <<>>
    /\ catIn = NoCat
    /\ catOut = <<>>

chatFrame == <<pc, file, today, parsed, txns, report, catIn, catOut>>

\* handleUpload without a file (formData.get('file') is null): 400.
UploadNoFile ==
    /\ file = NoFile
    /\ response' = Response("400", "No file provided", 0)
    /\ UNCHANGED <<sessions, chats, chatFrame>>

\* handleUpload of a file whose extension has no parser: 400.
UploadUnsupportedType ==
    /\ {f \in ServerFiles : f.ext \notin SupportedExts} # {}
    /\ response' = Response("400", "Unsupported file type", 0)
    /\ UNCHANGED <<sessions, chats, chatFrame>>

\* handleUpload of a file whose parser throws: the catch answers 500 before
\* any session is made.
UploadParserThrows ==
    /\ today = ServerToday
    /\ {u \in ParsedUploads : u.parsed.threw} # {}
    /\ response' = Response("500", "Failed to process file", 0)
    /\ UNCHANGED <<sessions, chats, chatFrame>>

\* The tail of handleUpload for the parsed transactions: the session is set
\* in the Map under a new id, then the report is generated; when that throws
\* the answer is 500 and the session stays in the Map.
storeAndAnswer(transactions) ==
    /\ sessions' = MapSet(sessions, generateSessionId(sessions),
                          SessionData(generateSessionId(sessions), transactions))
    /\ response' = IF generateReport(transactions).threw
                 THEN Response("500", "Failed to process file", 0)
                 ELSE Response("200", "", generateSessionId(sessions))

\* handleUpload of a file its parser accepts.
UploadStored ==
    /\ Cardinality(DOMAIN sessions) < MaxSessions
    /\ today = ServerToday
    /\ \E u \in ParsedUploads :
          /\ ~u.parsed.threw
          /\ storeAndAnswer(u.parsed.value)
    /\ UNCHANGED <<chats, chatFrame>>

\* The session ids chat requests carry: 0 for a body without one, the ids
\* of the sessions, and an id no session has.
ChatSessionIds == {0} \cup DOMAIN sessions \cup {generateSessionId(sessions)}

\* handleChat with no sessionId or no message in the body: 400.
ChatMissing ==
    /\ {r \in ChatSessionIds \X ChatMessages : r[1] = 0 \/ ~truthy(r[2])} # {}
    /\ response' = Response("400", "Missing sessionId or message", 0)
    /\ UNCHANGED <<sessions, chats, chatFrame>>

\* handleChat with a sessionId the Map does not hold: 404.
ChatInvalidSession ==
    /\ {r \in (ChatSessionIds \ {0}) \X ChatMessages :
            truthy(r[2]) /\ ~MapHas(sessions, r[1])} # {}
    /\ response' = Response("404", "Invalid session", 0)
    /\ UNCHANGED <<sessions, chats, chatFrame>>

\* handleChat on a session whose report or prompt cannot be built: the
\* exception leaves chatWithAgent and handleChat answers 500.
ChatPromptThrows ==
    /\ {r \in (DOMAIN sessions) \X ChatMessages :
            truthy(r[2]) /\ promptThrows(MapGet(sessions, r[1]).transactions)} # {}
    /\ response' = Response("500", "Failed to process chat", 0)
    /\ UNCHANGED <<sessions, chats, chatFrame>>

\* handleChat up to the first await of chatWithAgent: the report and the
\* prompt, with the last entries of the history, are built and the agent's
\* task is started.
ChatStart ==
    /\ Len(chats) < MaxChats
    /\ \E sid \in DOMAIN sessions :
          /\ ~promptThrows(MapGet(sessions, sid).transactions)
          /\ \E m \in ChatMessages :
                /\ truthy(m)
                /\ chats' = Append(chats,
                      Chat("running", sid, m,
                           lastEntries(MapGet(sessions, sid).conversationHistory,
                                       HistoryWindow),
                           "", <<>>, FALSE))
    /\ UNCHANGED <<sessions, response, chatFrame>>

\* The answer of chatWithAgent once both entries are pushed: the final text,
\* with the report when the question asks for it; userMessage.toLowerCase()
\* throws for a message that is not a string, and the catch answers the
\* error text.
answered(chat, finalText) ==
    IF chat.message.t # "str"
    THEN Chat("completed", chat.sessionId, chat.message, chat.prompt,
              "200", AgentErrorText, FALSE)
    ELSE Chat("completed", chat.sessionId, chat.message, chat.prompt,
              "200", finalText,
              shouldUpdateReport(toLowerCase(chat.message.s)))

\* The agent's event stream ends: the rest of chatWithAgent runs without
\* an await, pushing the user message and the reply on the session's history.
ChatComplete ==
    /\ \E c \in DOMAIN chats, text \in AgentTexts :
          /\ chats[c].pc = "running"
          /\ sessions' =
                [sessions EXCEPT ![chats[c].sessionId].conversationHistory =
                    pushPair(@, chats[c].message, finalTextOf(text))]
          /\ chats' = [chats EXCEPT ![c] = answered(@, finalTextOf(text))]
    /\ UNCHANGED <<response, chatFrame>>

\* The agent's run throws: the catch of chatWithAgent answers the error
\* text and the history is left as it was.
ChatAgentFails ==
    /\ \E c \in DOMAIN chats :
          /\ chats[c].pc = "running"
          /\ chats' = [chats EXCEPT ![c] =
                Chat("failed", @.sessionId, @.message, @.prompt,
                     "200", AgentErrorText, FALSE)]
    /\ UNCHANGED <<sessions, response, chatFrame>>

NextServer ==
    \/ UploadNoFile
    \/ UploadUnsupportedType
    \/ UploadParserThrows
    \/ UploadStored
    \/ ChatMissing
    \/ ChatInvalidSession
    \/ ChatPromptThrows
    \/ ChatStart
    \/ ChatComplete
    \/ ChatAgentFails

SpecServer == InitServer /\ [][NextServer]_vars

----------------------------------------------------------------------------
(* Claims about the parsers, under SpecUpload *)

\* The parser of the uploaded file has been called (and returned or threw).
Parsed == pc \in {"200", "500"}

NonBlankLines(content) ==
    SelectSeq(split(content, "\n"), LAMBDA l : trim(l) # <<>>)

\* The non-blank lines after the header line of a CSV text.
DataLines(content) ==
    IF NonBlankLines(content) = <<>> THEN <<>> ELSE Tail(NonBlankLines(content))

HeaderLine(content) ==
    IF NonBlankLines(content) = <<>> THEN <<>> ELSE Head(NonBlankLines(content))

\* The header of the CSV text names a date column and an amount column.
HasBothColumns(content) ==
    /\ \E h \in DOMAIN csvHeaders(HeaderLine(content)) :
          IsDateName(csvHeaders(HeaderLine(content))[h])
    /\ \E h \in DOMAIN csvHeaders(HeaderLine(content)) :
          IsAmountName(csvHeaders(HeaderLine(content))[h])

\* The trimmed field of `line` under the first header satisfying P, or
\* undefined when the line has no field there.
Field(content, line, P(_)) ==
    LET i  == findIndex(csvHeaders(HeaderLine(content)), P)
        vs == split(line, ",")
    IN  IF i >= 0 /\ i < Len(vs) THEN Str(trim(vs[i + 1])) ELSE Undef

\* The row has a non-empty value in the date and in the amount column.
RowComplete(content, line) ==
    /\ Field(content, line, IsDateName).t = "str"
    /\ Field(content, line, IsDateName).s # <<>>
    /\ Field(content, line, IsAmountName).t = "str"
    /\ Field(content, line, IsAmountName).s # <<>>

\* C1: parseCSV never raises: whatever the text, rows with fewer fields than
\* the header included, the call returns a list of transactions.
C1_ParseCSVNeverRaises ==
    (Parsed /\ file.ext = "csv") => ~parsed.threw

\* C2: parseCSV emits a transaction for a data row only if the header names
\* a date and an amount column and the row has a non-empty value in both; any
\* other row is dropped, so the transactions are exactly the complete rows.
C2_IncompleteRowsDropped ==
    (Parsed /\ file.ext = "csv" /\ ~parsed.threw) =>
        Len(parsed.value) =
            IF HasBothColumns(file.content)
            THEN Len(SelectSeq(DataLines(file.content),
                               LAMBDA l : RowComplete(file.content, l)))
            ELSE 0

\* p is a decimal literal with an optional minus sign: digits, optionally a
\* dot and digits, or a dot and digits.
IsNumeral(p) ==
    LET b == IF p # <<>> /\ p[1] = "-" THEN Tail(p) ELSE p
    IN  \E k \in 0..Len(b) :
           /\ \A i \in 1..k : IsDigit(b[i])
           /\ \/ k = Len(b) /\ k > 0
              \/ /\ k < Len(b)
                 /\ b[k + 1] = "."
                 /\ \A i \in (k + 2)..Len(b) : IsDigit(b[i])
                 /\ (k > 0 \/ Len(b) > k + 1)

\* The magnitude, in hundredths, of the numeral p.
NumeralMagnitude(p) ==
    LET b  == IF p # <<>> /\ p[1] = "-" THEN Tail(p) ELSE p
        k  == Cardinality({i \in DOMAIN b : \A j \in 1..i : IsDigit(b[j])})
        f1 == IF Len(b) >= k + 2 THEN DigitValue(b[k + 2]) ELSE 0
        f2 == IF Len(b) >= k + 3 THEN DigitValue(b[k + 3]) ELSE 0
    IN  IntOf(SubSeq(b, 1, k)) * Scale + 10 * f1 + f2

\* The amount a cell text stands for: the magnitude of the longest prefix
\* that is a numeral of what is left of the text once every character other
\* than a digit, a dot and a minus is removed; 0 when no prefix is one.
ExpectedAmount(text) ==
    LET s  == SelectSeq(text, LAMBDA c : c \in {"-", "."} \/ IsDigit(c))
        ks == {k \in 1..Len(s) : IsNumeral(SubSeq(s, 1, k))}
    IN  IF ks = {} THEN 0
        ELSE NumeralMagnitude(
                 SubSeq(s, 1, CHOOSE k \in ks : \A j \in ks : j <= k))

\* The row object has a key for the date and a key for the amount.
HasBothKeys(row) ==
    /\ \E i \in DOMAIN row : IsDateName(toLowerCase(row[i][1]))
    /\ \E i \in DOMAIN row : IsAmountName(toLowerCase(row[i][1]))

\* The text of the amount cell of each row the parser builds a transaction
\* from, in row order.
AmountTexts(f) ==
    IF f.ext = "csv"
    THEN IF HasBothColumns(f.content)
         THEN [i \in DOMAIN DataLines(f.content) |->
                  Field(f.content, DataLines(f.content)[i], IsAmountName).s]
         ELSE <<>>
    ELSE LET rows == SelectSeq(f.book.rows, HasBothKeys)
         IN  [i \in DOMAIN rows |->
                 toStr(Get(rows[i],
                           find(Keys(rows[i]),
                                LAMBDA k : IsAmountName(toLowerCase(k))).s))]

\* C3: every transaction parseCSV or parseExcel emits has an amount >= 0, the
\* absolute value of the number its amount cell parses to once stripped of
\* every character but digits, dot and minus, and 0 when it does not parse:
\* the row is retained, one transaction per row with a date and an amount.
C3_AmountIsAbsoluteValue ==
    (Parsed /\ ~parsed.threw /\ file.ext \in {"csv", "xlsx", "xls"}) =>
        LET texts == AmountTexts(file)
        IN  /\ Len(parsed.value) = Len(texts)
            /\ \A i \in DOMAIN parsed.value :
                  /\ parsed.value[i].amount >= 0
                  /\ parsed.value[i].amount = ExpectedAmount(texts[i])

\* A parse that kept a row whose amount cell is "N/A" with amount 0 and
\* turned a cell "-4.50" into 4.5.
C3_Witness ==
    /\ Parsed /\ ~parsed.threw /\ file.ext = "csv"
    /\ \E i, j \in DOMAIN parsed.value :
          /\ AmountTexts(file)[i] = <<"N","/","A">>
          /\ parsed.value[i].amount = 0
          /\ AmountTexts(file)[j] = <<"-","4",".","5","0">>
          /\ parsed.value[j].amount = 450

\* s has the form YYYY-MM-DD.
IsCanonicalDate(s) ==
    /\ Len(s) = 10
    /\ \A i \in {1, 2, 3, 4, 6, 7, 9, 10} : IsDigit(s[i])
    /\ s[5] = "-" /\ s[8] = "-"

\* C4: every transaction parseCSV or parseExcel emits has a date that is a
\* string of the form YYYY-MM-DD.
C4_DatesCanonical ==
    (Parsed /\ ~parsed.threw) =>
        \A i \in DOMAIN parsed.value :
            /\ parsed.value[i].date.t = "str"
            /\ IsCanonicalDate(parsed.value[i].date.s)

\* C5: generateReport returns a report, without raising, for every list the
\* parsers return, and the canonical empty report for the empty list.
C5_GenerateReportTotal ==
    (Parsed /\ ~parsed.threw) =>
        /\ ~report.threw
        /\ parsed.value = <<>> => report.value = EmptyReport

----------------------------------------------------------------------------
(* Claims about generateReport, under SpecReport *)

\* The sum of the amounts of the transactions at the indices in I.
RECURSIVE SumAt(_, _)
SumAt(ts, I) ==
    IF I = {} THEN 0
    ELSE LET i == CHOOSE j \in I : TRUE IN ts[i].amount + SumAt(ts, I \ {i})

\* The sum, in hundredths, of the values of an object, when they are all
\* numbers.
RECURSIVE SumNumbers(_, _)
SumNumbers(obj, I) ==
    IF I = {} THEN 0
    ELSE LET i == CHOOSE j \in I : TRUE IN obj[i][2].n + SumNumbers(obj, I \ {i})

AllNumbers(obj) == \A i \in DOMAIN obj : obj[i][2].t = "num"

\* The first seven characters of the dates of the list.
MonthsOf(ts) == {SubSeq(ts[i].date.s, 1, IF Len(ts[i].date.s) < 7
                                         THEN Len(ts[i].date.s) ELSE 7) :
                    i \in DOMAIN ts}

InMonth(ts, m) == {i \in DOMAIN ts : SubSeq(ts[i].date.s, 1, Len(m)) = m
                                     /\ (Len(m) = 7 \/ Len(ts[i].date.s) = Len(m))}

\* C6: for a non-empty list, transactionCount is its length, totalSpent the
\* sum of its amounts, and the values of byCategory and those of byMonth are
\* numbers that each add up to totalSpent.
C6_GroupingsPartitionTotal ==
    (Len(txns) > 0 /\ ~report.threw) =>
        /\ report.value.totals.transactionCount = Len(txns)
        /\ report.value.totals.totalSpent = Num(SumAt(txns, DOMAIN txns))
        /\ AllNumbers(report.value.byCategory)
        /\ Num(SumNumbers(report.value.byCategory, DOMAIN report.value.byCategory))
              = report.value.totals.totalSpent
        /\ AllNumbers(report.value.byMonth)
        /\ Num(SumNumbers(report.value.byMonth, DOMAIN report.value.byMonth))
              = report.value.totals.totalSpent

\* The index at which merchant m is first seen in the list.
FirstSeen(ts, m) ==
    CHOOSE i \in DOMAIN ts :
        ts[i].merchant.s = m /\ \A j \in 1..(i - 1) : ts[j].merchant.s # m

\* C7: topMerchants has one entry per distinct merchant (all of them when
\* there are at most ten), with that merchant's total and count, is sorted
\* non-increasing by spent, has at most ten entries, and two merchants with
\* equal spent appear in the order in which they are first seen in the list.
C7_TopMerchants ==
    ~report.threw =>
        LET tm == report.value.topMerchants
            ms == {txns[i].merchant.s : i \in DOMAIN txns}
        IN  /\ Len(tm) <= 10
            /\ Len(tm) = IF Cardinality(ms) < 10 THEN Cardinality(ms) ELSE 10
            /\ \A i \in DOMAIN tm :
                  /\ tm[i].merchant \in ms
                  /\ tm[i].spent =
                        Num(SumAt(txns, {k \in DOMAIN txns :
                                            txns[k].merchant.s = tm[i].merchant}))
                  /\ tm[i].count =
                        Cardinality({k \in DOMAIN txns :
                                        txns[k].merchant.s = tm[i].merchant})
            /\ \A i, j \in DOMAIN tm :
                  i < j =>
                      /\ tm[i].merchant # tm[j].merchant
                      /\ ~lessThan(tm[i].spent, tm[j].spent)
                      /\ tm[i].spent = tm[j].spent =>
                            FirstSeen(txns, tm[i].merchant)
                                < FirstSeen(txns, tm[j].merchant)

\* The months among the last three of the set ms, in ascending key order.
LastThree(ms) == {m \in ms : Cardinality({x \in ms : StrLess(m, x)}) < 3}

\* C8: forecast is null exactly when the list has fewer than two distinct
\* months; otherwise nextMonthSpend is the average spend of the last
\* min(3, n) months in ascending key order, rounded to the nearest integer,
\* confidence is "High" for n >= 3 and "Medium" for n = 2, and method is
\* "Average of last 3 months".
C8_Forecast ==
    ~report.threw =>
        LET f    == report.value.forecast
            ms   == MonthsOf(txns)
            last == LastThree(ms)
            sum  == SumAt(txns, UNION {InMonth(txns, m) : m \in last})
            k    == Cardinality(last)
        IN  /\ f.isNull <=> Cardinality(ms) < 2
            /\ Cardinality(ms) >= 2 =>
                  /\ f.nextMonthSpend.t = "num"
                  /\ f.nextMonthSpend.n % Scale = 0
                  /\ 2 * k * f.nextMonthSpend.n - Scale * k <= 2 * sum
                  /\ 2 * sum < 2 * k * f.nextMonthSpend.n + Scale * k
                  /\ f.confidence = IF Cardinality(ms) >= 3 THEN "High" ELSE "Medium"
                  /\ f.method = "Average of last 3 months"

\* The score the claim prescribes for a non-empty list.
ExpectedScore(ts) ==
    LET total  == SumAt(ts, DOMAIN ts)
        months == Cardinality(MonthsOf(ts))
        dining == SumAt(ts, {i \in DOMAIN ts : ts[i].category.s = <<"D","i","n","i","n","g">>})
        raw    == 75 - (IF total > 3000 * Scale * months THEN 15 ELSE 0)
                     - (IF total > 5000 * Scale * months THEN 10 ELSE 0)
                     - (IF 10 * dining > 3 * total THEN 10 ELSE 0)
    IN  IF raw < 0 THEN 0 ELSE IF raw > 100 THEN 100 ELSE raw

\* C9: for a non-empty list, the score is 75 less 15 when the monthly average
\* exceeds 3000, less 10 more when it exceeds 5000, less 10 when Dining is
\* more than 30% of the total, clamped to 0..100, and the summary is the one
\* of the clamped score.
C9_HealthScore ==
    (Len(txns) > 0 /\ ~report.threw) =>
        /\ report.value.healthScore.score = ExpectedScore(txns)
        /\ report.value.healthScore.score \in 0..100
        /\ report.value.healthScore.summary =
              IF ExpectedScore(txns) >= 80 THEN "Excellent financial health!"
              ELSE IF ExpectedScore(txns) >= 60 THEN "Good, with room for improvement"
              ELSE "Consider reducing spending"

----------------------------------------------------------------------------
(* The claim about categorizeTransaction, under SpecCat *)

\* The rules one of whose keywords occurs in the lowercased text
\* "description merchant".
Hits(description, merchant) ==
    {i \in DOMAIN CATEGORY_RULES :
        \E k \in DOMAIN CATEGORY_RULES[i].keywords :
            includes(toLowerCase(description \o <<" ">> \o merchant),
                     CATEGORY_RULES[i].keywords[k])}

\* C10: categorizeTransaction returns the category of the first rule, in
\* table order, one of whose keywords occurs in the lowercased text
\* "description merchant", and "Other" exactly when no keyword of any rule
\* occurs; a text containing "starbucks" is "Dining" whatever else it holds.
C10_FirstMatchingRule ==
    pc = "done" =>
        LET hits == Hits(catIn.description, catIn.merchant)
        IN  /\ hits = {} <=> catOut = <<"O","t","h","e","r">>
            /\ hits # {} =>
                  catOut = CATEGORY_RULES[CHOOSE i \in hits :
                                             \A j \in hits : i <= j].category
            /\ includes(toLowerCase(catIn.description \o <<" ">> \o catIn.merchant),
                        <<"s","t","a","r","b","u","c","k","s">>)
                  => catOut = <<"D","i","n","i","n","g">>

\* A text in which keywords of two rules occur ("starbucks" of Dining and a
\* keyword of a later rule), categorized as Dining.
C10_Witness ==
    /\ pc = "done"
    /\ Cardinality(Hits(catIn.description, catIn.merchant)) >= 2
    /\ includes(toLowerCase(catIn.description), <<"s","t","a","r","b","u","c","k","s">>)
    /\ catOut = <<"D","i","n","i","n","g">>


----------------------------------------------------------------------------
(* Claims about the session store, under SpecServer *)

\* The ids of the sessions whose record differs after the step.
Touched == {id \in DOMAIN sessions : sessions'[id] # sessions[id]}

\* The upload just answered was rejected: no file, or an extension without
\* a parser.
UploadRejected ==
    /\ response' # response
    /\ response'.error \in {"No file provided", "Unsupported file type"}

\* C11: once a session is stored, its id and its transaction list (every
\* date, merchant, amount and category) stay as they are through every later
\* upload and chat; a step adds at most one session, under an id no session
\* had; a chat step adds none; and a rejected upload (no file, unsupported
\* extension) leaves the sessions as they were.
C11_StoredTransactionsNeverChange ==
    [][ /\ \A id \in DOMAIN sessions :
              /\ id \in DOMAIN sessions'
              /\ sessions'[id].sessionId = sessions[id].sessionId
              /\ sessions'[id].transactions = sessions[id].transactions
        /\ Cardinality(DOMAIN sessions' \ DOMAIN sessions) <= 1
        /\ chats' # chats => DOMAIN sessions' = DOMAIN sessions
        /\ UploadRejected => sessions' = sessions
      ]_vars

\* Two sessions, the first with transactions and with a chat pushed on its
\* history before the second was stored, and a rejected upload answered last.
C11_Witness ==
    /\ Cardinality(DOMAIN sessions) >= 2
    /\ Len(sessions[1].transactions) = 2
    /\ sessions[1].transactions # sessions[2].transactions
    /\ Len(sessions[1].conversationHistory) >= 2
    /\ \E c \in DOMAIN chats : chats[c].pc = "completed" /\ chats[c].sessionId = 1
    /\ response.status = "400"
    /\ response.error = "Unsupported file type"

\* Every history is a sequence of (user, assistant) pairs.
PairsAdjacent ==
    \A id \in DOMAIN sessions :
        LET h == sessions[id].conversationHistory
        IN  /\ Len(h) % 2 = 0
            /\ \A i \in DOMAIN h :
                  h[i].role = IF i % 2 = 1 THEN "user" ELSE "assistant"

\* Chat c's agent run ends in this step, as outcome says.
Ends(c, outcome) ==
    /\ chats[c].pc = "running"
    /\ c \in DOMAIN chats'
    /\ chats'[c].pc = outcome

\* The step appends to session id's history the message of chat c followed
\* by its reply, and nothing else of the session changes.
AppendsPair(id, c) ==
    LET h == sessions[id].conversationHistory
        g == sessions'[id].conversationHistory
    IN  /\ Len(g) = Len(h) + 2
        /\ SubSeq(g, 1, Len(h)) = h
        /\ g[Len(h) + 1] = [role |-> "user", content |-> chats[c].message]
        /\ g[Len(h) + 2].role = "assistant"
        /\ g[Len(h) + 2].content.t = "str"
        /\ chats[c].message.t = "str"
              => g[Len(h) + 2].content.s = chats'[c].reply
        /\ sessions' = [sessions EXCEPT ![id].conversationHistory = g]

\* The chat just answered was refused for a missing sessionId or message,
\* or for a sessionId no session has.
ChatRefused ==
    /\ response' # response
    /\ response'.error \in {"Missing sessionId or message", "Invalid session"}

\* What a step may do to the histories.
ChatSteps ==
    /\ \A c \in DOMAIN chats :
          /\ Ends(c, "completed") => AppendsPair(chats[c].sessionId, c)
          /\ Ends(c, "failed") => sessions' = sessions
    /\ ChatRefused => sessions' = sessions
    /\ \A id \in Touched :
          \E c \in DOMAIN chats : chats[c].sessionId = id /\ Ends(c, "completed")

\* C12: whatever the interleaving of chats on a session, its history is
\* made of adjacent (user, assistant) pairs: a chat whose agent run completes
\* appends its user message immediately followed by its reply and nothing
\* comes between them, a chat whose agent run fails appends nothing, and a
\* chat with an unknown sessionId or a missing message changes no session.
C12_HistoryPairsAdjacent == []PairsAdjacent /\ [][ChatSteps]_vars

\* Two chats on one session that ran at the same time (each built its prompt
\* from the empty history), the later request answered first: the history
\* holds the later chat's pair, then the earlier chat's pair.
C12_Witness ==
    /\ Len(chats) >= 2
    /\ chats[1].pc = "completed" /\ chats[2].pc = "completed"
    /\ chats[1].sessionId = chats[2].sessionId
    /\ chats[1].prompt = <<>> /\ chats[2].prompt = <<>>
    /\ chats[1].reply # chats[2].reply
    /\ sessions[chats[1].sessionId].conversationHistory =
          <<[role |-> "user", content |-> chats[2].message],
            [role |-> "assistant", content |-> Str(chats[2].reply)],
            [role |-> "user", content |-> chats[1].message],
            [role |-> "assistant", content |-> Str(chats[1].reply)]>>

====
